---- MODULE Spec2Model ----
(***************************************************************************)
(* Model of the job-posting extraction pipeline of rcng81/job-tracker:     *)
(* src/scrapers/generic.py (the "advanced" variant) and src/scraper.py     *)
(* (the older variant).                                                    *)
(*                                                                         *)
(* Python strings are sequences of one-character strings; the three       *)
(* non-ASCII separator characters of src/scraper.py:66 are written as the  *)
(* single sequence elements "endash", "emdash" and "middot".  Python       *)
(* values are tagged records [t, v]; the tag "raise" stands for an         *)
(* exception leaving the function.                                         *)
(***************************************************************************)
EXTENDS Integers, Sequences, FiniteSets, TLC

\* fn: the function that has run ("start" before any has); arg: its
\* argument; ret: what it returned; file: the CSV file at the output path.
VARIABLES fn, arg, ret, file

vars == <<fn, arg, ret, file>>

\* The output path when no file exists there.
NoFile == [exists |-> FALSE, fieldnames |-> <<>>, rows |-> <<>>, eol |-> TRUE]

(***************************************************************************)
(* Python values                                                           *)
(***************************************************************************)
None == [t |-> "none", v |-> <<>>]

Raise == [t |-> "raise", v |-> <<>>]

Str(s) == [t |-> "str", v |-> s]

Num(n) == [t |-> "num", v |-> n]

List(items) == [t |-> "list", v |-> items]

Dict(f) == [t |-> "dict", v |-> f]

Bool(b) == [t |-> "bool", v |-> b]

\* A key that a dict literal leaves out.
Missing == [t |-> "missing", v |-> <<>>]

\* The dict with the keys of the record f whose value is not Missing.
MkDict(f) == Dict([k \in {key \in DOMAIN f : f[key] # Missing} |-> f[k]])

EmptyDict == Dict([k \in {} |-> None])

\* Python truthiness: None, "", 0, [] and {} are falsy.
Truthy(x) ==
    CASE x.t = "none" -> FALSE
      [] x.t = "str" -> x.v # <<>>
      [] x.t = "num" -> x.v # 0
      [] x.t = "list" -> x.v # <<>>
      [] x.t = "dict" -> DOMAIN x.v # {}
      [] x.t = "bool" -> x.v
      [] OTHER -> TRUE

\* dict.get(key): the value, or None when the key is missing.
Get(d, key) == IF key \in DOMAIN d.v THEN d.v[key] ELSE None

\* Python `a or b`.
Or(a, b) == IF Truthy(a) THEN a ELSE b

\* `s or None` for a str s.
StrOrNone(s) == IF s = <<>> THEN None ELSE Str(s)

(***************************************************************************)
(* Python str methods, on sequences of characters.  Indices are Python's:  *)
(* 0-based, -1 for "not found".                                            *)
(***************************************************************************)
Whitespace == {" ", "\t", "\n"}

UpperLetters ==
    <<"A", "B", "C", "D", "E", "F", "G", "H", "I", "J", "K", "L", "M",
      "N", "O", "P", "Q", "R", "S", "T", "U", "V", "W", "X", "Y", "Z">>

LowerLetters ==
    <<"a", "b", "c", "d", "e", "f", "g", "h", "i", "j", "k", "l", "m",
      "n", "o", "p", "q", "r", "s", "t", "u", "v", "w", "x", "y", "z">>

Digits == <<"0", "1", "2", "3", "4", "5", "6", "7", "8", "9">>

IsUpper(c) == \E i \in DOMAIN UpperLetters : UpperLetters[i] = c

IsDigit(c) == \E i \in DOMAIN Digits : Digits[i] = c

LowerChar(c) ==
    IF IsUpper(c)
    THEN LowerLetters[CHOOSE i \in DOMAIN UpperLetters : UpperLetters[i] = c]
    ELSE c

SetMin(S) == CHOOSE m \in S : \A n \in S : m <= n

SetMax(S) == CHOOSE m \in S : \A n \in S : m >= n

\* str.lower()
Lower(s) == [i \in 1..Len(s) |-> LowerChar(s[i])]

\* str.strip()
Strip(s) ==
    LET keep == {i \in 1..Len(s) : s[i] \notin Whitespace}
    IN IF keep = {} THEN <<>> ELSE SubSeq(s, SetMin(keep), SetMax(keep))

\* The 0-based positions at which sub occurs in s.
Occurrences(s, sub) ==
    {i \in 0..(Len(s) - Len(sub)) : SubSeq(s, i + 1, i + Len(sub)) = sub}

\* str.find(sub)
Find(s, sub) ==
    IF Occurrences(s, sub) = {} THEN -1 ELSE SetMin(Occurrences(s, sub))

\* str.rfind(sub)
RFind(s, sub) ==
    IF Occurrences(s, sub) = {} THEN -1 ELSE SetMax(Occurrences(s, sub))

\* `sub in s`
Contains(s, sub) == Occurrences(s, sub) # {}

\* s[:idx]
Prefix(s, idx) == SubSeq(s, 1, idx)

\* s[idx:]
Suffix(s, idx) == SubSeq(s, idx + 1, Len(s))

\* str.endswith(sub)
EndsWith(s, sub) ==
    Len(s) >= Len(sub) /\ SubSeq(s, Len(s) - Len(sub) + 1, Len(s)) = sub

\* The concatenation of a sequence of strings.
RECURSIVE Concat(_)
Concat(parts) ==
    IF parts = <<>> THEN <<>> ELSE Head(parts) \o Concat(Tail(parts))

\* sep.join(parts)
RECURSIVE Join(_, _)
Join(sep, parts) ==
    IF parts = <<>> THEN <<>>
    ELSE IF Len(parts) = 1 THEN parts[1]
    ELSE parts[1] \o sep \o Join(sep, Tail(parts))

(***************************************************************************)
(* Title Normalizer: _clean_title                                          *)
(***************************************************************************)
SEP_PIPE == <<" ", "|", " ">>

SEP_DASH == <<" ", "-", " ">>

SEP_ENDASH == <<" ", "endash", " ">>

SEP_MIDDOT == <<" ", "middot", " ">>

SEP_AT == <<" ", "a", "t", " ">>

\* src/scrapers/generic.py:63
separators == <<SEP_PIPE, SEP_DASH, SEP_AT>>

\* src/scraper.py:66
scraper_separators ==
    <<SEP_PIPE, SEP_DASH, SEP_ENDASH, <<" ", "emdash", " ">>, SEP_MIDDOT, SEP_AT>>

W_IN == <<" ", "i", "n", " ">>

employment_terms ==
    << <<"i", "n", "t", "e", "r", "n", "s", "h", "i", "p">>,
       <<"i", "n", "t", "e", "r", "n">>,
       <<"c", "o", "n", "t", "r", "a", "c", "t">>,
       <<"t", "e", "m", "p", "o", "r", "a", "r", "y">> >>

\* for sep in separators: if sep in title: title = title.split(sep, 1)[0].strip()
RECURSIVE CutSeparators(_, _)
CutSeparators(title, seps) ==
    IF seps = <<>> THEN title
    ELSE CutSeparators(
             IF Contains(title, Head(seps))
             THEN Strip(Prefix(title, Find(title, Head(seps))))
             ELSE title,
             Tail(seps))

\* if " in " in lower: title = title[:lower.rfind(" in ")].strip()
CutTrailingIn(title) ==
    IF Contains(Lower(title), W_IN)
    THEN Strip(Prefix(title, RFind(Lower(title), W_IN)))
    ELSE title

\* if title.endswith(")") and "(" in title: title = title[:title.rfind("(")].strip()
CutTrailingParen(title) ==
    IF EndsWith(title, <<")">>) /\ Contains(title, <<"(">>)
    THEN Strip(Prefix(title, RFind(title, <<"(">>)))
    ELSE title

\* The term loop without the .strip() that follows each truncation.
RECURSIVE CutTermsUnstripped(_, _)
CutTermsUnstripped(title, terms) ==
    IF terms = <<>> THEN title
    ELSE CutTermsUnstripped(
             IF Contains(Lower(title), Head(terms))
             THEN Prefix(title, Find(Lower(title), Head(terms)))
             ELSE title,
             Tail(terms))

\* for term in [...]: if term in title.lower(): title = title[:lower.find(term)].strip()
RECURSIVE CutTerms(_, _)
CutTerms(title, terms) ==
    IF terms = <<>> THEN title
    ELSE CutTerms(
             IF Contains(Lower(title), Head(terms))
             THEN Strip(Prefix(title, Find(Lower(title), Head(terms))))
             ELSE title,
             Tail(terms))

CleanTitleWith(seps, raw) ==
    IF ~Truthy(raw) THEN None
    ELSE IF raw.t # "str" THEN Raise
    ELSE StrOrNone(
             CutTerms(
                 CutTrailingParen(CutTrailingIn(CutSeparators(Strip(raw.v), seps))),
                 employment_terms))

\* src/scrapers/generic.py
clean_title(raw) == CleanTitleWith(separators, raw)

\* src/scraper.py
scraper_clean_title(raw) == CleanTitleWith(scraper_separators, raw)

(***************************************************************************)
(* Company/Title Splitter: _split_linkedin_hiring_title                    *)
(***************************************************************************)
marker == <<" ", "h", "i", "r", "i", "n", "g", " ">>

split_linkedin_hiring_title(raw) ==
    IF ~Truthy(raw) THEN [company |-> None, title |-> None]
    ELSE IF raw.t # "str" THEN Raise
    ELSE LET text == Strip(raw.v)
             at == Find(text, marker)
         IN IF at # -1
            THEN [company |-> StrOrNone(Strip(Prefix(text, at))),
                  title |-> StrOrNone(Strip(Suffix(text, at + Len(marker))))]
            ELSE [company |-> None, title |-> None]

(***************************************************************************)
(* Raw titles: concatenations of at most MaxChunks chunks.                 *)
(***************************************************************************)
MaxChunks == 3

SeqsUpTo(S, n) == UNION {[1..k -> S] : k \in 0..n}

RawTitles(n) ==
    LET TitleChunks ==
            { <<"Q", "A">>, <<"A", "c", "m", "e">>, <<" ">>,
              SEP_PIPE, SEP_DASH, SEP_ENDASH, SEP_MIDDOT, SEP_AT,
              <<" ", "I", "n", " ", "T", "X">>, <<" ", "(", "x", ")">>,
              <<"I", "n", "t", "e", "r", "n">>, <<"s", "h", "i", "p">>,
              marker }
    IN  {None} \cup {Str(Concat(cs)) : cs \in SeqsUpTo(TitleChunks, n)}

InitTitle ==
    /\ fn = "start"
    /\ arg \in RawTitles(MaxChunks)
    /\ ret = None
    /\ file = NoFile

CleanTitle ==
    /\ fn = "start"
    /\ arg.t \in {"none", "str"}
    /\ fn' = "_clean_title"
    /\ ret' = clean_title(arg)
    /\ UNCHANGED <<arg, file>>

ScraperCleanTitle ==
    /\ fn = "start"
    /\ arg.t \in {"none", "str"}
    /\ fn' = "scraper._clean_title"
    /\ ret' = scraper_clean_title(arg)
    /\ UNCHANGED <<arg, file>>

SplitHiringTitle ==
    /\ fn = "start"
    /\ arg.t \in {"none", "str"}
    /\ fn' = "_split_linkedin_hiring_title"
    /\ ret' = split_linkedin_hiring_title(arg)
    /\ UNCHANGED <<arg, file>>

NextTitle == CleanTitle \/ ScraperCleanTitle \/ SplitHiringTitle

SpecTitle == InitTitle /\ [][NextTitle]_vars

\* C4: the Title Normalizer is idempotent: cleaning an already cleaned title
\* (absent included) gives it back unchanged, in the variant of
\* src/scrapers/generic.py and in the variant of src/scraper.py.
C4_CleanTitleIdempotent ==
    /\ fn = "_clean_title" => clean_title(ret) = ret
    /\ fn = "scraper._clean_title" => scraper_clean_title(ret) = ret

\* A cleaned title on which steps 3 and 4 of the normalizer have nothing left
\* to cut: no " in " (case-insensitively) and no trailing parenthetical.
FullyCut(title) ==
    /\ ~Contains(Lower(title), W_IN)
    /\ ~(EndsWith(title, <<")">>) /\ Contains(title, <<"(">>))

\* C4 (amended): cleaning an already cleaned title gives it back unchanged
\* whenever the cleaned title is absent, or contains no " in "
\* (case-insensitively) and does not both end with ")" and contain "(";
\* in the variant of src/scrapers/generic.py and in that of src/scraper.py.
C4_IdempotentOnceFullyCut ==
    /\ (fn = "_clean_title" /\ (ret.t = "str" => FullyCut(ret.v)))
           => clean_title(ret) = ret
    /\ (fn = "scraper._clean_title" /\ (ret.t = "str" => FullyCut(ret.v)))
           => scraper_clean_title(ret) = ret

\* A title from which a separator, a location phrase, a parenthetical or an
\* employment term was cut, leaving a fully cut, non-empty title.
C4_Witness ==
    /\ fn \in {"_clean_title", "scraper._clean_title"}
    /\ arg.t = "str"
    /\ ret.t = "str"
    /\ ret.v # Strip(arg.v)
    /\ FullyCut(ret.v)
    /\ Contains(Lower(arg.v), employment_terms[2])

\* C10: when " hiring " occurs in the raw title the splitter returns the
\* trimmed text before its first occurrence as company and the trimmed text
\* after it as title, an empty half being absent; without the marker both
\* outputs are absent.
C10_SplitAtFirstMarker ==
    (fn = "_split_linkedin_hiring_title" /\ arg.t = "str") =>
        LET at == Find(arg.v, marker)
        IN IF at # -1
           THEN /\ ret.company = StrOrNone(Strip(Prefix(arg.v, at)))
                /\ ret.title = StrOrNone(Strip(Suffix(arg.v, at + Len(marker))))
           ELSE ret.company = None /\ ret.title = None

(***************************************************************************)
(* Numbers.  A Python float is [int, frac]: its integer part and the       *)
(* digits of its fraction without trailing zeros (the pay amounts here are *)
(* non-negative decimals with few digits, which a float holds exactly for  *)
(* the comparisons and the formatting below).                              *)
(***************************************************************************)
Float(n, fracDigits) == [int |-> n, frac |-> fracDigits]

DigitVal(c) == (CHOOSE i \in DOMAIN Digits : Digits[i] = c) - 1

RECURSIVE ToInt(_)
ToInt(ds) ==
    IF ds = <<>> THEN 0
    ELSE ToInt(SubSeq(ds, 1, Len(ds) - 1)) * 10 + DigitVal(ds[Len(ds)])

\* str(int(n))
RECURSIVE IntToStr(_)
IntToStr(n) ==
    IF n < 10 THEN <<Digits[n + 1]>>
    ELSE IntToStr(n \div 10) \o <<Digits[(n % 10) + 1]>>

DropTrailingZeros(ds) ==
    LET keep == {i \in 1..Len(ds) : ds[i] # "0"}
    IN IF keep = {} THEN <<>> ELSE SubSeq(ds, 1, SetMax(keep))

AllDigits(s) == s # <<>> /\ \A i \in 1..Len(s) : IsDigit(s[i])

\* Whether float(s) accepts the text s: here digits, or digits "." digits.
IsDecimalText(s) ==
    \/ AllDigits(s)
    \/ \E d \in 2..(Len(s) - 1) :
          /\ s[d] = "."
          /\ AllDigits(SubSeq(s, 1, d - 1))
          /\ AllDigits(SubSeq(s, d + 1, Len(s)))

\* float(s) for a text that IsDecimalText accepts.
ParseDecimal(s) ==
    IF AllDigits(s) THEN Float(ToInt(s), <<>>)
    ELSE LET d == CHOOSE d \in 2..(Len(s) - 1) : s[d] = "."
         IN Float(ToInt(SubSeq(s, 1, d - 1)),
                  DropTrailingZeros(SubSeq(s, d + 1, Len(s))))

\* float(x): a float, or Raise for the TypeError/ValueError the callers catch.
ToFloat(x) ==
    CASE x.t = "num" -> Float(x.v, <<>>)
      [] x.t = "bool" -> Float(IF x.v THEN 1 ELSE 0, <<>>)
      [] x.t = "str" ->
            IF IsDecimalText(Strip(x.v)) THEN ParseDecimal(Strip(x.v)) ELSE Raise
      [] OTHER -> Raise

\* f"{x:g}" and str(x) of a float with a fraction.
FormatG(x) ==
    IntToStr(x.int) \o (IF x.frac = <<>> THEN <<>> ELSE <<".">> \o x.frac)

\* f"{int(math.floor(x / 1000.0))}k"
to_k(x) == IntToStr(x.int \div 1000) \o <<"k">>

(***************************************************************************)
(* Pay Normalizer, free text: _normalize_salary_text                       *)
(***************************************************************************)
\* The last index of the longest run of characters of the set chars that
\* starts at index i (i - 1 when the run is empty).
RunEnd(s, i, chars) ==
    SetMax({j \in (i - 1)..Len(s) : \A k \in i..j : s[k] \in chars})

DigitChars == {Digits[i] : i \in DOMAIN Digits}

LetterChars ==
    {UpperLetters[i] : i \in DOMAIN UpperLetters}
    \cup {LowerLetters[i] : i \in DOMAIN LowerLetters}

\* re.findall(r"\d[\d,]*(?:\.\d+)?", s) from index i on.
RECURSIVE FindNumberTokens(_, _)
FindNumberTokens(s, i) ==
    IF i > Len(s) THEN <<>>
    ELSE IF ~IsDigit(s[i]) THEN FindNumberTokens(s, i + 1)
    ELSE LET j == RunEnd(s, i, DigitChars \cup {","})
             k == IF j + 2 <= Len(s) /\ s[j + 1] = "." /\ IsDigit(s[j + 2])
                  THEN RunEnd(s, j + 2, DigitChars)
                  ELSE j
         IN <<SubSeq(s, i, k)>> \o FindNumberTokens(s, k + 1)

\* float(match.replace(",", ""))
TokenValue(tok) ==
    LET NotComma(c) == c # ","
    IN ParseDecimal(SelectSeq(tok, NotComma))

W_K == <<"k">>

W_HR == <<"h", "r">>

W_HOUR == <<"h", "o", "u", "r">>

KiloThreshold == 1000

normalize_salary_text(text) ==
    LET raw == Strip(text)
        lowered == Lower(raw)
        matches == FindNumberTokens(raw, 1)
        numbers == [i \in 1..Len(matches) |-> TokenValue(matches[i])]
    IN IF raw = <<>> THEN None
       ELSE IF Contains(lowered, W_K) THEN Str(raw)
       ELSE IF Contains(lowered, W_HR) \/ Contains(lowered, W_HOUR) THEN Str(raw)
       ELSE IF matches = <<>> THEN Str(raw)
       ELSE IF \A i \in 1..Len(numbers) : numbers[i].int < KiloThreshold
            THEN IF Len(numbers) = 2
                 THEN Str(FormatG(numbers[1]) \o <<"-">> \o FormatG(numbers[2]))
                 ELSE Str(FormatG(numbers[1]))
       ELSE IF /\ Len(numbers) >= 2
               /\ numbers[1].int >= KiloThreshold
               /\ numbers[2].int >= KiloThreshold
            THEN Str(IntToStr(numbers[1].int \div 1000) \o <<"-">>
                     \o IntToStr(numbers[2].int \div 1000) \o <<"k">>)
       ELSE Str(to_k(numbers[1]))

(***************************************************************************)
(* Pay texts: at most MaxChunks amounts, each followed by a separator.     *)
(***************************************************************************)
PayTexts(n) ==
    LET AmountTokens ==
            { <<>>, <<"5", "0", "0">>, <<"2", "5", ".", "5", "0">>,
              <<"2", ",", "0", "0", "0">>, <<"6", "0", ",", "0", "0", "0">> }
        AmountSeparators ==
            { <<" ">>, <<" ", "-", " ">>, <<"/", "h", "r">>, <<"K">>, <<" ", "U", "S", "D">> }
        PayChunks == {a \o sep : a \in AmountTokens, sep \in AmountSeparators}
    IN  {Str(Concat(cs)) : cs \in SeqsUpTo(PayChunks, n)}

InitPayText ==
    /\ fn = "start"
    /\ arg \in PayTexts(MaxChunks)
    /\ ret = None
    /\ file = NoFile

NormalizeSalaryText ==
    /\ fn = "start"
    /\ arg.t = "str"
    /\ fn' = "_normalize_salary_text"
    /\ ret' = normalize_salary_text(arg.v)
    /\ UNCHANGED <<arg, file>>

NextPayText == NormalizeSalaryText

SpecPayText == InitPayText /\ [][NextPayText]_vars

\* The amounts of a pay text, as _normalize_salary_text extracts them.
AmountsOf(text) ==
    LET matches == FindNumberTokens(Strip(text), 1)
    IN [i \in 1..Len(matches) |-> TokenValue(matches[i])]

\* C8: free-text pay scale inference.  Text with "k", "hr" or "hour" and
\* text without a number is returned unmodified; when every number is below
\* 1000 the result is a plain number or range without suffix; two numbers
\* both >= 1000 give "<a/1000>-<b/1000>k"; exactly one number >= 1000 gives
\* that number's floor(n/1000) followed by "k", wherever it stands.
C8_SalaryTextScale ==
    (fn = "_normalize_salary_text" /\ Strip(arg.v) # <<>>) =>
        LET raw == Strip(arg.v)
            lowered == Lower(raw)
            nums == AmountsOf(arg.v)
            big == {i \in 1..Len(nums) : nums[i].int >= 1000}
        IN IF \/ Contains(lowered, W_K) \/ Contains(lowered, W_HR)
              \/ Contains(lowered, W_HOUR) \/ nums = <<>>
           THEN ret = Str(raw)
           ELSE /\ big = {} =>
                    /\ ret.t = "str"
                    /\ ~Contains(ret.v, W_K)
                    /\ \/ ret.v = FormatG(nums[1])
                       \/ Len(nums) >= 2 /\
                          ret.v = FormatG(nums[1]) \o <<"-">> \o FormatG(nums[2])
                /\ (Len(nums) = 2 /\ Cardinality(big) = 2) =>
                    ret = Str(IntToStr(nums[1].int \div 1000) \o <<"-">>
                              \o IntToStr(nums[2].int \div 1000) \o <<"k">>)
                /\ Cardinality(big) = 1 =>
                    ret = Str(IntToStr(nums[CHOOSE i \in big : TRUE].int \div 1000)
                              \o <<"k">>)

(***************************************************************************)
(* Pay Normalizer, structured: _normalize_salary and its helpers           *)
(***************************************************************************)
\* (unit or "").lower(): Raise for the AttributeError of a truthy non-str.
UnitText(unit) ==
    IF ~Truthy(unit) THEN Str(<<>>)
    ELSE IF unit.t = "str" THEN Str(Lower(unit.v))
    ELSE Raise

\* "year" in unit_text or "yr" in unit_text or not unit_text
IsYearly(unit_text) ==
    \/ Contains(unit_text, <<"y", "e", "a", "r">>)
    \/ Contains(unit_text, <<"y", "r">>)
    \/ unit_text = <<>>

format_salary_value(raw_value, unit) ==
    IF raw_value.t = "none" THEN None
    ELSE IF raw_value.t = "str"
         THEN IF Strip(raw_value.v) = <<>> THEN None
              ELSE normalize_salary_text(Strip(raw_value.v))
    ELSE IF ToFloat(raw_value) = Raise THEN None
    ELSE IF UnitText(unit) = Raise THEN Raise
    ELSE LET numeric == ToFloat(raw_value)
         IN IF numeric.int >= KiloThreshold /\ IsYearly(UnitText(unit).v)
            THEN Str(to_k(numeric))
            ELSE Str(FormatG(numeric))

format_salary_range(min_value, max_value, unit) ==
    IF min_value.t = "none" \/ max_value.t = "none" THEN None
    ELSE IF ToFloat(min_value) = Raise \/ ToFloat(max_value) = Raise THEN None
    ELSE IF UnitText(unit) = Raise THEN Raise
    ELSE LET min_num == ToFloat(min_value)
             max_num == ToFloat(max_value)
         IN IF /\ min_num.int >= KiloThreshold
               /\ max_num.int >= KiloThreshold
               /\ IsYearly(UnitText(unit).v)
            THEN Str(IntToStr(min_num.int \div 1000) \o <<"-">>
                     \o IntToStr(max_num.int \div 1000) \o <<"k">>)
            ELSE None

\* src/scrapers/generic.py
normalize_salary(job) ==
    LET base == Get(job, "baseSalary")
    IN IF base.t # "dict" THEN None
       ELSE LET value == Get(base, "value")
            IN IF value.t = "dict"
               THEN LET min_val == Get(value, "minValue")
                        max_val == Get(value, "maxValue")
                        unit == Get(value, "unitText")
                        range_text == format_salary_range(min_val, max_val, unit)
                        min_text == format_salary_value(min_val, unit)
                    IN IF range_text = Raise THEN Raise
                       ELSE IF Truthy(range_text) THEN range_text
                       ELSE IF min_text = Raise THEN Raise
                       ELSE IF Truthy(min_text) THEN min_text
                       ELSE None
               ELSE IF Truthy(value) THEN format_salary_value(value, None)
               ELSE None

\* str(x) inside an f-string; the repr of a list or a dict is left opaque.
PyStr(x) ==
    CASE x.t = "str" -> x.v
      [] x.t = "num" -> IntToStr(x.v)
      [] x.t = "bool" -> IF x.v THEN <<"T", "r", "u", "e">> ELSE <<"F", "a", "l", "s", "e">>
      [] x.t = "none" -> <<"N", "o", "n", "e">>
      [] OTHER -> <<"repr">>

\* src/scraper.py
scraper_normalize_salary(job) ==
    LET base == Get(job, "baseSalary")
    IN IF base.t # "dict" THEN None
       ELSE LET value == Get(base, "value")
            IN IF value.t = "dict"
               THEN LET min_val == Get(value, "minValue")
                        max_val == Get(value, "maxValue")
                        unit == Get(value, "unitText")
                    IN IF Truthy(min_val) /\ Truthy(max_val)
                       THEN Str(Strip(PyStr(min_val) \o <<"-">> \o PyStr(max_val)
                                      \o <<" ">> \o PyStr(Or(unit, Str(<<>>)))))
                       ELSE IF Truthy(min_val)
                       THEN Str(Strip(PyStr(min_val) \o <<" ">>
                                      \o PyStr(Or(unit, Str(<<>>)))))
                       ELSE None
               ELSE IF Truthy(value) THEN Str(PyStr(value))
               ELSE None

(***************************************************************************)
(* Location Normalizer, structured: _normalize_location                    *)
(***************************************************************************)
\* [p for p in parts if p]
RECURSIVE TruthyOnly(_)
TruthyOnly(parts) ==
    IF parts = <<>> THEN <<>>
    ELSE (IF Truthy(Head(parts)) THEN <<Head(parts)>> ELSE <<>>)
         \o TruthyOnly(Tail(parts))

normalize_location(job) ==
    LET loc0 == Get(job, "jobLocation")
        loc == IF loc0.t = "list" /\ loc0.v # <<>> THEN loc0.v[1] ELSE loc0
    IN IF loc.t # "dict" THEN None
       ELSE LET address == Or(Get(loc, "address"), EmptyDict)
            IN IF address.t # "dict" THEN None
               ELSE LET parts == TruthyOnly(<<Get(address, "addressLocality"),
                                              Get(address, "addressRegion"),
                                              Get(address, "addressCountry")>>)
                    IN IF parts = <<>> THEN None
                       ELSE IF \E i \in 1..Len(parts) : parts[i].t # "str"
                       THEN Raise
                       ELSE Str(Join(<<",", " ">>,
                                     [i \in 1..Len(parts) |-> parts[i].v]))

(***************************************************************************)
(* Work-Mode Classifier: _normalize_work_mode, _find_work_mode_in_text     *)
(***************************************************************************)
W_TELECOMMUTE == <<"t", "e", "l", "e", "c", "o", "m", "m", "u", "t", "e">>

W_REMOTE == <<"r", "e", "m", "o", "t", "e">>

W_HYBRID == <<"h", "y", "b", "r", "i", "d">>

W_ON_SITE_SPACE == <<"o", "n", " ", "s", "i", "t", "e">>

W_ON_SITE_HYPHEN == <<"o", "n", "-", "s", "i", "t", "e">>

W_ONSITE == <<"o", "n", "s", "i", "t", "e">>

W_IN_PERSON == <<"i", "n", " ", "p", "e", "r", "s", "o", "n">>

REMOTE == <<"R", "e", "m", "o", "t", "e">>

HYBRID == <<"H", "y", "b", "r", "i", "d">>

ON_SITE == <<"O", "n", "-", "s", "i", "t", "e">>

\* A classifier that falls back to "On-site" instead of absent.
normalize_work_mode_defaulting(job) ==
    LET mode == Get(job, "jobLocationType")
        lowered == IF mode.t = "str" THEN Lower(mode.v) ELSE <<>>
    IN IF Contains(lowered, W_TELECOMMUTE) \/ Contains(lowered, W_REMOTE)
       THEN Str(REMOTE)
       ELSE IF Contains(lowered, W_HYBRID) THEN Str(HYBRID)
       ELSE Str(ON_SITE)

normalize_work_mode(job) ==
    LET mode == Get(job, "jobLocationType")
    IN IF mode.t # "str" THEN None
       ELSE LET lowered == Lower(mode.v)
            IN IF Contains(lowered, W_TELECOMMUTE) \/ Contains(lowered, W_REMOTE)
               THEN Str(REMOTE)
               ELSE IF Contains(lowered, W_HYBRID) THEN Str(HYBRID)
               ELSE IF \/ Contains(lowered, W_ON_SITE_SPACE)
                       \/ Contains(lowered, W_ON_SITE_HYPHEN)
                       \/ Contains(lowered, W_ONSITE)
               THEN Str(ON_SITE)
               ELSE None

\* A scan that looks for "hybrid" before "remote".
find_work_mode_hybrid_first(text) ==
    LET lowered == Lower(text)
    IN IF Contains(lowered, W_HYBRID) THEN Str(HYBRID)
       ELSE IF Contains(lowered, W_REMOTE) THEN Str(REMOTE)
       ELSE IF \/ Contains(lowered, W_ON_SITE_HYPHEN)
               \/ Contains(lowered, W_ONSITE)
               \/ Contains(lowered, W_ON_SITE_SPACE)
               \/ Contains(lowered, W_IN_PERSON)
       THEN Str(ON_SITE)
       ELSE None

find_work_mode_in_text(text) ==
    LET lowered == Lower(text)
    IN IF Contains(lowered, W_REMOTE) THEN Str(REMOTE)
       ELSE IF Contains(lowered, W_HYBRID) THEN Str(HYBRID)
       ELSE IF \/ Contains(lowered, W_ON_SITE_HYPHEN)
               \/ Contains(lowered, W_ONSITE)
               \/ Contains(lowered, W_ON_SITE_SPACE)
               \/ Contains(lowered, W_IN_PERSON)
       THEN Str(ON_SITE)
       ELSE None

(***************************************************************************)
(* The free-text pay step of the orchestrator:                             *)
(*   if pay: pay = _normalize_salary_text(pay)                             *)
(***************************************************************************)
normalize_selected_pay(pay) ==
    IF Truthy(pay) THEN normalize_salary_text(pay.v) ELSE pay

(***************************************************************************)
(* Structured job records handed to the field normalizers.                 *)
(***************************************************************************)
JOB_POSTING == <<"J", "o", "b", "P", "o", "s", "t", "i", "n", "g">>

FieldJobs ==
    LET SalaryAmounts ==
            { Missing, None, Num(20), Num(500), Num(90000), Num(120000),
              Str(<<"9", "0", "0", "0", "0">>), Str(<<"a", "b", "c">>) }
        SalaryUnits == { Missing, Str(<<"Y", "E", "A", "R">>), Str(<<"H", "O", "U", "R">>), Str(<<>>) }
        SalaryValues ==
            { Missing, None, Num(0), Num(45), Num(85000), Str(<<"6", "0", ",", "0", "0",
                  "0", " ">>), Str(<<" ">>) }
            \cup { MkDict([minValue |-> a, maxValue |-> b, unitText |-> u]) :
                       a \in SalaryAmounts, b \in SalaryAmounts, u \in SalaryUnits }
        BaseSalaries ==
            { None, Str(<<"8", "5", "0", "0", "0">>) } \cup { MkDict([value |-> x]) : x \in SalaryValues }
        Addresses ==
            { MkDict([addressLocality |-> l, addressRegion |-> r, addressCountry |-> c]) :
                  l \in {Missing, Str(<<"A", "u", "s", "t", "i", "n">>), Str(<<" ">>)},
                  r \in {Missing, Str(<<"T", "X">>), Str(<<>>)},
                  c \in {Missing, None, Str(<<"U", "S">>)} }
        Places ==
            { EmptyDict, MkDict([address |-> None]), MkDict([address |-> Str(<<"A", "u",
                  "s", "t", "i", "n">>)]) }
            \cup { MkDict([address |-> a]) : a \in Addresses }
        JobLocations ==
            { None, Str(<<"A", "u", "s", "t", "i", "n">>), List(<<>>) } \cup Places
            \cup { List(<<pl>>) : pl \in Places }
        JobLocationTypes ==
            { None, Num(1), Str(<<"T", "E", "L", "E", "C", "O", "M", "M", "U", "T", "E">>),
                  Str(<<"F", "u", "l", "l", "y", " ", "R", "e", "m", "o", "t", "e">>),
                  Str(<<"H", "y", "b", "r", "i", "d">>),
              Str(<<"O", "n", "-", "S", "i", "t", "e">>), Str(<<"o", "n", "s", "i", "t",
                    "e">>), Str(<<"O", "f", "f", "i", "c", "e">>), Str(<<>>) }
        \* A JobPosting record holding the one field key.
        JobWith(key, x) == Dict(("@type" :> Str(JOB_POSTING)) @@ (key :> x))
    IN  { Dict("@type" :> Str(JOB_POSTING)) }
        \cup { JobWith("baseSalary", b) : b \in BaseSalaries }
        \cup { JobWith("jobLocation", l) : l \in JobLocations }
        \cup { JobWith("jobLocationType", m) : m \in JobLocationTypes }

FieldTexts ==
    { None, Str(<<>>), Str(<<"Q", "A">>), Str(<<"A", "c", "m", "e", " ", "h", "i",
          "r", "i", "n", "g", " ", "Q", "A">>), Str(<<"$", "5", "0", "0", " ", "-",
          " ", "6", "0", ",", "0", "0", "0">>),
      Str(<<"9", "0", ",", "0", "0", "0">>), Str(<<"I", "n", "t", "e", "r", "n">>) }

InitFields ==
    /\ fn = "start"
    /\ arg \in FieldJobs \cup FieldTexts
    /\ ret = None
    /\ file = NoFile

NormalizeSelectedPay ==
    /\ fn = "start"
    /\ arg.t \in {"none", "str"}
    /\ fn' = "pay = _normalize_salary_text(pay)"
    /\ ret' = normalize_selected_pay(arg)
    /\ UNCHANGED <<arg, file>>

NormalizeLocation ==
    /\ fn = "start"
    /\ arg.t = "dict"
    /\ fn' = "_normalize_location"
    /\ ret' = normalize_location(arg)
    /\ UNCHANGED <<arg, file>>

NormalizeSalary ==
    /\ fn = "start"
    /\ arg.t = "dict"
    /\ fn' = "_normalize_salary"
    /\ ret' = normalize_salary(arg)
    /\ UNCHANGED <<arg, file>>

ScraperNormalizeSalary ==
    /\ fn = "start"
    /\ arg.t = "dict"
    /\ fn' = "scraper._normalize_salary"
    /\ ret' = scraper_normalize_salary(arg)
    /\ UNCHANGED <<arg, file>>

NormalizeWorkMode ==
    /\ fn = "start"
    /\ arg.t = "dict"
    /\ fn' = "_normalize_work_mode"
    /\ ret' = normalize_work_mode(arg)
    /\ UNCHANGED <<arg, file>>

NextFields ==
    \/ CleanTitle
    \/ ScraperCleanTitle
    \/ SplitHiringTitle
    \/ NormalizeSelectedPay
    \/ NormalizeLocation
    \/ NormalizeSalary
    \/ ScraperNormalizeSalary
    \/ NormalizeWorkMode

SpecFields == InitFields /\ [][NextFields]_vars

\* C5: absence is contagious.  Every field normalizer returns absent when
\* its upstream input is absent (None, or the key missing from the
\* structured record); none fabricates a value.
C5_AbsenceIsContagious ==
    /\ (fn \in {"_clean_title", "scraper._clean_title"} /\ arg = None)
           => ret = None
    /\ (fn = "_split_linkedin_hiring_title" /\ arg = None)
           => (ret.company = None /\ ret.title = None)
    /\ (fn = "pay = _normalize_salary_text(pay)" /\ arg = None) => ret = None
    /\ (fn = "_normalize_location" /\ Get(arg, "jobLocation") = None)
           => ret = None
    /\ (fn \in {"_normalize_salary", "scraper._normalize_salary"}
           /\ Get(arg, "baseSalary") = None) => ret = None
    /\ (fn = "_normalize_work_mode" /\ Get(arg, "jobLocationType") = None)
           => ret = None

\* A record without jobLocationType has gone through the work-mode
\* classifier, which reported absent.
C5_Witness ==
    /\ fn = "_normalize_work_mode"
    /\ "jobLocationType" \notin DOMAIN arg.v
    /\ "baseSalary" \in DOMAIN arg.v
    /\ ret = None

\* C7: whenever minValue and maxValue are both present the structured pay
\* is a range naming both bounds: "<min/1000>-<max/1000>k" when the smaller
\* bound is >= 1000 and the unit is yearly or unspecified, and
\* "<min>-<max> <unit>" otherwise; the maximum is never dropped.
C7_RangeNamesBothBounds ==
    LET value == Get(Get(arg, "baseSalary"), "value")
        lo == Get(value, "minValue")
        hi == Get(value, "maxValue")
        unit == Or(Get(value, "unitText"), Str(<<>>))
    IN (/\ fn = "_normalize_salary"
        /\ Get(arg, "baseSalary").t = "dict"
        /\ value.t = "dict"
        /\ lo.t = "num" /\ hi.t = "num") =>
           IF SetMin({lo.v, hi.v}) >= 1000 /\ IsYearly(Lower(unit.v))
           THEN ret = Str(IntToStr(lo.v \div 1000) \o <<"-">>
                          \o IntToStr(hi.v \div 1000) \o <<"k">>)
           ELSE ret = Str(Strip(IntToStr(lo.v) \o <<"-">> \o IntToStr(hi.v)
                                \o <<" ">> \o unit.v))

(***************************************************************************)
(* Location free-text scan: _US_STATES, _find_location_in_text             *)
(***************************************************************************)
US_STATES ==
    {
      <<"A", "L">>, <<"A", "K">>, <<"A", "Z">>, <<"A", "R">>, <<"C", "A">>, <<"C", "O">>,
      <<"C", "T">>, <<"D", "E">>, <<"F", "L">>, <<"G", "A">>, <<"H", "I">>, <<"I", "D">>,
      <<"I", "L">>, <<"I", "N">>, <<"I", "A">>, <<"K", "S">>, <<"K", "Y">>, <<"L", "A">>,
      <<"M", "E">>, <<"M", "D">>, <<"M", "A">>, <<"M", "I">>, <<"M", "N">>, <<"M", "S">>,
      <<"M", "O">>, <<"M", "T">>, <<"N", "E">>, <<"N", "V">>, <<"N", "H">>, <<"N", "J">>,
      <<"N", "M">>, <<"N", "Y">>, <<"N", "C">>, <<"N", "D">>, <<"O", "H">>, <<"O", "K">>,
      <<"O", "R">>, <<"P", "A">>, <<"R", "I">>, <<"S", "C">>, <<"S", "D">>, <<"T", "N">>,
      <<"T", "X">>, <<"U", "T">>, <<"V", "T">>, <<"V", "A">>, <<"W", "A">>, <<"W", "V">>,
      <<"W", "I">>, <<"W", "Y">>, <<"D", "C">> }

\* \w of the regular expression (what \b separates from the rest).
IsWordChar(c) == c \in LetterChars \/ IsDigit(c) \/ c = "_"

\* [A-Z][a-zA-Z]+ at index p: the index of its last letter, 0 when it does
\* not match there.
WordEnd(s, p) ==
    IF p <= Len(s) /\ IsUpper(s[p]) /\ RunEnd(s, p + 1, LetterChars) >= p + 1
    THEN RunEnd(s, p + 1, LetterChars)
    ELSE 0

\* (?:[ -][A-Z][a-zA-Z]+)* after a word ending at index e: the index where
\* the last repetition ends.
RECURSIVE WordsEnd(_, _)
WordsEnd(s, e) ==
    IF e + 2 <= Len(s) /\ s[e + 1] \in {" ", "-"} /\ WordEnd(s, e + 2) # 0
    THEN WordsEnd(s, WordEnd(s, e + 2))
    ELSE e

NoMatch == [ok |-> FALSE, words |-> <<>>, state |-> <<>>, end |-> 0]

\* The match of
\*   \b([A-Z][a-zA-Z]+(?:[ -][A-Z][a-zA-Z]+)*)\s*,\s*([A-Z]{2})\b
\* that starts at index p, if there is one.  Every quantifier of the pattern
\* is followed by something its own characters cannot match, so a start has
\* at most one match.
MatchAt(s, p) ==
    IF ~(IsUpper(s[p]) /\ (p = 1 \/ ~IsWordChar(s[p - 1])) /\ WordEnd(s, p) # 0)
    THEN NoMatch
    ELSE LET g == WordsEnd(s, WordEnd(s, p))
             a == RunEnd(s, g + 1, Whitespace)
             b == RunEnd(s, a + 2, Whitespace)
         IN IF /\ a + 1 <= Len(s) /\ s[a + 1] = ","
               /\ b + 2 <= Len(s) /\ IsUpper(s[b + 1]) /\ IsUpper(s[b + 2])
               /\ (b + 2 = Len(s) \/ ~IsWordChar(s[b + 3]))
            THEN [ok |-> TRUE, words |-> SubSeq(s, p, g),
                  state |-> SubSeq(s, b + 1, b + 2), end |-> b + 2]
            ELSE NoMatch

\* lowered = text.lower(); "remote" -> "Remote", "hybrid" -> "Hybrid", else None
LocationKeyword(text) ==
    IF Contains(Lower(text), W_REMOTE) THEN Str(REMOTE)
    ELSE IF Contains(Lower(text), W_HYBRID) THEN Str(HYBRID)
    ELSE None

\* A scan that accepts the first match without consulting _US_STATES.
RECURSIVE ScanLocationUnchecked(_, _)
ScanLocationUnchecked(text, p) ==
    IF p > Len(text) THEN LocationKeyword(text)
    ELSE LET m == MatchAt(text, p)
         IN IF ~m.ok THEN ScanLocationUnchecked(text, p + 1)
            ELSE Str(m.words \o <<",", " ">> \o m.state)

\* for match in pattern.finditer(text): ... from index p on, then the
\* keyword fallback.
RECURSIVE ScanLocation(_, _)
ScanLocation(text, p) ==
    IF p > Len(text) THEN LocationKeyword(text)
    ELSE LET m == MatchAt(text, p)
         IN IF ~m.ok THEN ScanLocation(text, p + 1)
            ELSE IF m.state \in US_STATES
            THEN Str(m.words \o <<",", " ">> \o m.state)
            ELSE ScanLocation(text, m.end + 1)

find_location_in_text(text) == ScanLocation(text, 1)

(***************************************************************************)
(* Page texts for the location scan: at most MaxChunks chunks.             *)
(***************************************************************************)
LocationTexts(n) ==
    LET LocationChunks ==
            { <<"R", "i", "o">>, <<"R", "i", "o", ",", " ", "Z", "Q", " ">>,
              <<"R", "i", "o", ",", " ", "T", "X">>, <<",", " ", "T", "X">>,
              <<",", " ", "Z", "Q">>, <<" ", ",", "N", "Y">>, <<" ">>, <<"-", "E", "l">>,
              <<" ", "r", "e", "m", "o", "t", "e">>, <<" ", "H", "y", "b", "r", "i", "d">>, <<"s">> }
    IN  {Str(Concat(cs)) : cs \in SeqsUpTo(LocationChunks, n)}

InitLocation ==
    /\ fn = "start"
    /\ arg \in LocationTexts(MaxChunks)
    /\ ret = None
    /\ file = NoFile

FindLocationInText ==
    /\ fn = "start"
    /\ arg.t = "str"
    /\ fn' = "_find_location_in_text"
    /\ ret' = find_location_in_text(arg.v)
    /\ UNCHANGED <<arg, file>>

FindWorkModeInText ==
    /\ fn = "start"
    /\ arg.t = "str"
    /\ fn' = "_find_work_mode_in_text"
    /\ ret' = find_work_mode_in_text(arg.v)
    /\ UNCHANGED <<arg, file>>

NextLocation == FindLocationInText \/ FindWorkModeInText

SpecLocation == InitLocation /\ [][NextLocation]_vars

\* The matches pattern.finditer(text) yields from index p on, in text order.
RECURSIVE PatternMatches(_, _)
PatternMatches(text, p) ==
    IF p > Len(text) THEN <<>>
    ELSE IF MatchAt(text, p).ok
         THEN <<MatchAt(text, p)>> \o PatternMatches(text, MatchAt(text, p).end + 1)
         ELSE PatternMatches(text, p + 1)

\* C9: the location scan returns "<words>, <XX>" for the first match of the
\* scan, in text order, whose code XX is one of the 51 gazetteer codes
\* (matches with another code are passed over); only without such a match
\* is it "Remote" for a text containing "remote", else "Hybrid" for one
\* containing "hybrid", else absent.
C9_FirstGazetteerMatchWins ==
    fn = "_find_location_in_text" =>
        LET ms == PatternMatches(arg.v, 1)
            valid == {i \in 1..Len(ms) : ms[i].state \in US_STATES}
        IN /\ Cardinality(US_STATES) = 51
           /\ valid # {} =>
                  ret = Str(ms[SetMin(valid)].words \o <<",", " ">>
                            \o ms[SetMin(valid)].state)
           /\ valid = {} =>
                  ret = (IF Contains(Lower(arg.v), W_REMOTE) THEN Str(REMOTE)
                         ELSE IF Contains(Lower(arg.v), W_HYBRID) THEN Str(HYBRID)
                         ELSE None)

\* A text with a match outside the gazetteer, then a gazetteer match, then
\* the word "remote": the scan has returned the gazetteer match.
C9_Witness ==
    /\ fn = "_find_location_in_text"
    /\ Len(PatternMatches(arg.v, 1)) = 2
    /\ PatternMatches(arg.v, 1)[1].state \notin US_STATES
    /\ PatternMatches(arg.v, 1)[2].state \in US_STATES
    /\ Contains(Lower(arg.v), W_REMOTE)
    /\ ret = Str(<<"R", "i", "o", ",", " ", "T", "X">>)

(***************************************************************************)
(* The fetched document.  BeautifulSoup is an external library; a soup is  *)
(* what the code reads from it:                                             *)
(*   scripts  script.string of each application/ld+json block, in document  *)
(*            order: None, a str that is no JSON (JsonText absent), or the  *)
(*            JSON text of a value;                                         *)
(*   meta     per selector, the content attribute of the first node it      *)
(*            selects (no entry when it selects nothing);                   *)
(*   nodes    per selector, get_text(strip=True) of the first node it       *)
(*            selects (no entry when it selects nothing);                   *)
(*   text     soup.get_text(" ", strip=True).                               *)
(***************************************************************************)
\* The text of a script block that is the JSON serialisation of data.
JsonText(data) == [t |-> "json", v |-> data]

\* A non-empty script text that is not JSON.
NOT_JSON == Str(<<"{", "o", "o", "p", "s">>)

\* json.loads(raw): the decoded value, or Raise for json.JSONDecodeError.
json_loads(raw) == IF raw.t = "json" THEN raw.v ELSE Raise

\* candidates of one decoded block, ignoring the @graph wrapper.
candidates_without_graph(data) ==
    IF data.t = "list" THEN data.v
    ELSE IF data.t = "dict" THEN <<data>>
    ELSE <<>>

candidates(data) ==
    IF data.t = "list" THEN data.v
    ELSE IF data.t = "dict"
         THEN IF "@graph" \in DOMAIN data.v /\ data.v["@graph"].t = "list"
              THEN data.v["@graph"].v
              ELSE <<data>>
    ELSE <<>>

\* for obj in candidates: the first dict whose @type is "JobPosting", or None.
RECURSIVE FirstJobPosting(_)
FirstJobPosting(objs) ==
    IF objs = <<>> THEN None
    ELSE IF Head(objs).t = "dict" /\ Get(Head(objs), "@type") = Str(JOB_POSTING)
         THEN Head(objs)
         ELSE FirstJobPosting(Tail(objs))

\* A scan that gives up at the first block that does not decode.
RECURSIVE ParseScriptsFatal(_)
ParseScriptsFatal(scripts) ==
    IF scripts = <<>> THEN None
    ELSE IF ~Truthy(Head(scripts)) THEN ParseScriptsFatal(Tail(scripts))
    ELSE IF json_loads(Head(scripts)) = Raise THEN None
    ELSE IF FirstJobPosting(candidates(json_loads(Head(scripts)))) # None
         THEN FirstJobPosting(candidates(json_loads(Head(scripts))))
         ELSE ParseScriptsFatal(Tail(scripts))

\* for script in scripts: ...
RECURSIVE ParseScripts(_)
ParseScripts(scripts) ==
    IF scripts = <<>> THEN None
    ELSE IF ~Truthy(Head(scripts)) THEN ParseScripts(Tail(scripts))
    ELSE IF json_loads(Head(scripts)) = Raise THEN ParseScripts(Tail(scripts))
    ELSE IF FirstJobPosting(candidates(json_loads(Head(scripts)))) # None
         THEN FirstJobPosting(candidates(json_loads(Head(scripts))))
         ELSE ParseScripts(Tail(scripts))

parse_jsonld_jobposting(soup) == ParseScripts(soup.scripts)

(***************************************************************************)
(* Documents for the Structured-Metadata Parser: at most MaxBlocks blocks. *)
(***************************************************************************)
MaxBlocks == 3

\* A JobPosting object, told apart by its title.
Posting(name) == Dict(("@type" :> Str(JOB_POSTING)) @@ ("title" :> Str(name)))

ORGANIZATION == Dict("@type" :> Str(<<"O", "r", "g", "a", "n", "i", "z", "a", "t", "i", "o", "n">>))

NoNodes == [sel \in {} |-> None]

ParserDocuments(n) ==
    LET ScriptBlocks ==
            { None, Str(<<>>), NOT_JSON,
              JsonText(Num(7)),
              JsonText(ORGANIZATION),
              JsonText(Posting(<<"A">>)),
              JsonText(List(<<ORGANIZATION, Num(7), Posting(<<"B">>), Posting(<<"C">>)>>)),
              JsonText(List(<<List(<<Posting(<<"D">>)>>)>>)),
              JsonText(Dict("@graph" :> List(<<ORGANIZATION, Posting(<<"E">>)>>))),
              JsonText(Dict(("@type" :> Str(JOB_POSTING)) @@ ("title" :> Str(<<"F">>))
                            @@ ("@graph" :> List(<<ORGANIZATION>>)))),
              JsonText(Dict(("@type" :> Str(JOB_POSTING)) @@ ("title" :> Str(<<"G">>))
                            @@ ("@graph" :> Posting(<<"H">>)))) }
    IN  { [scripts |-> blocks, meta |-> NoNodes, nodes |-> NoNodes, text |-> <<>>] :
              blocks \in SeqsUpTo(ScriptBlocks, n) }

InitParse ==
    /\ fn = "start"
    /\ arg \in ParserDocuments(MaxBlocks)
    /\ ret = None
    /\ file = NoFile

ParseJsonldJobposting ==
    /\ fn = "start"
    /\ fn' = "_parse_jsonld_jobposting"
    /\ ret' = parse_jsonld_jobposting(arg)
    /\ UNCHANGED <<arg, file>>

NextParse == ParseJsonldJobposting

SpecParse == InitParse /\ [][NextParse]_vars

\* The candidate objects of a block as the specification flattens them: the
\* elements of a top-level list, the elements of a @graph list, or the
\* single mapping itself; none for a block that is empty or does not decode.
FlatCandidates(raw) ==
    IF raw.t # "json" THEN <<>>
    ELSE IF raw.v.t = "list" THEN raw.v.v
    ELSE IF raw.v.t # "dict" THEN <<>>
    ELSE IF "@graph" \in DOMAIN raw.v.v /\ raw.v.v["@graph"].t = "list"
         THEN raw.v.v["@graph"].v
    ELSE <<raw.v>>

IsJobPosting(obj) ==
    obj.t = "dict" /\ "@type" \in DOMAIN obj.v /\ obj.v["@type"] = Str(JOB_POSTING)

\* The places <<block, candidate>> of a document that hold a JobPosting.
PostingPlaces(scripts) ==
    UNION { { <<i, j>> : j \in { k \in 1..Len(FlatCandidates(scripts[i])) :
                                   IsJobPosting(FlatCandidates(scripts[i])[k]) } } :
            i \in 1..Len(scripts) }

Before(a, b) == a[1] < b[1] \/ (a[1] = b[1] /\ a[2] < b[2])

\* C2: the parser returns the first candidate, in document order over the
\* blocks and over each block's flattened candidates, whose @type equals
\* "JobPosting", and not-found only when no block holds such a candidate.
C2_FirstJobPostingInDocumentOrder ==
    fn = "_parse_jsonld_jobposting" =>
        LET places == PostingPlaces(arg.scripts)
        IN IF places = {} THEN ret = None
           ELSE \E pl \in places :
                   /\ \A other \in places : other = pl \/ Before(pl, other)
                   /\ ret = FlatCandidates(arg.scripts[pl[1]])[pl[2]]

\* The parser has passed over a block without a posting and a list whose
\* first elements are no postings, and returned the posting wrapped in the
\* list rather than the bare posting in the block after it.
C2_Witness ==
    /\ fn = "_parse_jsonld_jobposting"
    /\ Len(arg.scripts) = 3
    /\ arg.scripts[1] = JsonText(ORGANIZATION)
    /\ arg.scripts[2].t = "json" /\ arg.scripts[2].v.t = "list"
    /\ arg.scripts[3] = JsonText(Posting(<<"A">>))
    /\ ret = Posting(<<"B">>)

\* The document without its blocks that are empty or do not decode.
Decodable(soup) ==
    [soup EXCEPT !.scripts = SelectSeq(soup.scripts, LAMBDA raw : raw.t = "json")]

\* C3: a block that is empty or fails to decode is skipped, never fatal: the
\* parser does not raise and returns what it returns on the same document
\* with those blocks removed.
C3_UndecodableBlocksAreSkipped ==
    fn = "_parse_jsonld_jobposting" =>
        /\ ret # Raise
        /\ ret = parse_jsonld_jobposting(Decodable(arg))

\* A malformed block and an empty block came before a valid posting, which
\* was returned.
C3_Witness ==
    /\ fn = "_parse_jsonld_jobposting"
    /\ arg.scripts = <<NOT_JSON, Str(<<>>), JsonText(Posting(<<"A">>))>>
    /\ ret = Posting(<<"A">>)

(***************************************************************************)
(* Field Extractors: _first_text, _meta_content                            *)
(***************************************************************************)
\* A lookup that returns the text of the first node selected, empty or not.
RECURSIVE first_text_of_any_node(_, _)
first_text_of_any_node(soup, selectors) ==
    IF selectors = <<>> THEN None
    ELSE IF Head(selectors) \in DOMAIN soup.nodes
         THEN soup.nodes[Head(selectors)]
         ELSE first_text_of_any_node(soup, Tail(selectors))

RECURSIVE first_text(_, _)
first_text(soup, selectors) ==
    IF selectors = <<>> THEN None
    ELSE IF /\ Head(selectors) \in DOMAIN soup.nodes
            /\ Truthy(soup.nodes[Head(selectors)])
         THEN soup.nodes[Head(selectors)]
         ELSE first_text(soup, Tail(selectors))

meta_content(soup, selector) ==
    IF selector \in DOMAIN soup.meta /\ Truthy(soup.meta[selector])
    THEN Str(Strip(soup.meta[selector].v))
    ELSE None

(***************************************************************************)
(* Extraction Orchestrator: scrape_generic (src/scrapers/generic.py) and   *)
(* scrape_job (src/scraper.py).  A page is [url, netloc, ok, soup]: the    *)
(* URL, its urlparse(url).netloc, whether the fetch succeeded, and the     *)
(* parsed response.                                                        *)
(***************************************************************************)
OG_TITLE == "meta[property='og:title']"

TITLE_SELECTORS == <<"h1", "title">>

WORK_MODE_SELECTORS ==
    <<".job-details-fit-level-preferences button span.tvm__text--low-emphasis strong",
      "span[aria-hidden='true'] span.tvm__text--low-emphasis strong",
      "span.tvm__text--low-emphasis strong">>

\* The record, or Raise when a step raised.
Record(url, title, company, location, pay, posted, work_mode) ==
    IF Raise \in {title, company, location, pay, posted, work_mode} THEN Raise
    ELSE [url |-> url, title |-> title, company |-> company,
          location |-> location, pay |-> pay, posted_date |-> posted,
          work_mode |-> work_mode]

\* The branch taken when _parse_jsonld_jobposting found a record.
StructuredBranch(url, soup, job, title, pay) ==
    LET hiring_org == Get(job, "hiringOrganization")
        company == IF hiring_org.t = "dict" THEN Get(hiring_org, "name") ELSE None
        location == IF normalize_location(job) = Raise THEN Raise
                    ELSE IF Truthy(normalize_location(job))
                    THEN normalize_location(job)
                    ELSE find_location_in_text(soup.text)
        work_mode == Or(normalize_work_mode(job), find_work_mode_in_text(soup.text))
    IN Record(url, title, company, location, pay, Get(job, "datePosted"), work_mode)

\* The fallbacks for a page without a JSON-LD JobPosting; pay is handed to
\* normalize (generic.py) or left as selected (scraper.py).
HeuristicBranch(url, soup, title_of_split, normalize) ==
    LET raw_title == Or(meta_content(soup, OG_TITLE), first_text(soup, TITLE_SELECTORS))
        split == split_linkedin_hiring_title(raw_title)
        company == Or(split.company, first_text(soup,
                <<"[data-company]",
                  ".company",
                  ".company-name">>))
        selected == first_text(soup,
                <<"span[dir='ltr'] span.tvm__text--low-emphasis",
                  "span.tvm__text--low-emphasis",
                  "[data-location]",
                  ".location",
                  ".job-location">>)
        location == IF Truthy(selected) THEN selected
                    ELSE find_location_in_text(soup.text)
        work_mode_hint == Or(first_text(soup, WORK_MODE_SELECTORS), Str(<<>>))
        hinted == find_work_mode_in_text(work_mode_hint.v)
        work_mode == IF Truthy(hinted) THEN hinted
                     ELSE find_work_mode_in_text(soup.text)
        pay == first_text(soup,
                <<"span.tvm__text--low-emphasis strong",
                  "[data-salary]",
                  ".salary",
                  ".compensation">>)
    IN Record(url, title_of_split[Or(split.title, raw_title)], company, location,
              IF normalize THEN normalize_selected_pay(pay) ELSE pay,
              None, work_mode)

\* The two title normalizers as functions of the raw titles a page yields.
RawTitlesOf(soup) ==
    LET raw_title == Or(meta_content(soup, OG_TITLE), first_text(soup, TITLE_SELECTORS))
    IN {raw_title, split_linkedin_hiring_title(raw_title).title}

\* src/scrapers/generic.py
scrape_generic(page) ==
    IF ~page.ok THEN Raise
    ELSE LET job == parse_jsonld_jobposting(page.soup)
         IN IF Truthy(job)
            THEN StructuredBranch(page.url, page.soup, job,
                                  clean_title(Get(job, "title")),
                                  normalize_salary(job))
            ELSE HeuristicBranch(page.url, page.soup,
                                 [r \in RawTitlesOf(page.soup) |-> clean_title(r)],
                                 TRUE)

\* src/scraper.py
scraper_scrape_job(page) ==
    IF ~page.ok THEN Raise
    ELSE LET job == parse_jsonld_jobposting(page.soup)
         IN IF Truthy(job)
            THEN StructuredBranch(page.url, page.soup, job,
                                  scraper_clean_title(Get(job, "title")),
                                  scraper_normalize_salary(job))
            ELSE HeuristicBranch(page.url, page.soup,
                                 [r \in RawTitlesOf(page.soup) |-> scraper_clean_title(r)],
                                 FALSE)

(***************************************************************************)
(* Site Dispatcher: src/scrapers/dispatcher.py, src/scrapers/linkedin.py   *)
(***************************************************************************)
site_from_url(netloc) ==
    LET host0 == Lower(netloc)
        host == IF Len(host0) >= 4 /\ SubSeq(host0, 1, 4) = <<"w", "w", "w", ".">>
                THEN Suffix(host0, 4) ELSE host0
    IN IF EndsWith(host, <<"l", "i", "n", "k", "e", "d", "i", "n", ".", "c", "o", "m">>)
       THEN "linkedin"
       ELSE "None"

scrape_linkedin(page) == scrape_generic(page)

scrape_job(page) ==
    IF site_from_url(page.netloc) = "linkedin" THEN scrape_linkedin(page)
    ELSE scrape_generic(page)

(***************************************************************************)
(* Pages.                                                                  *)
(***************************************************************************)
Soups ==
    LET GoodJob ==
            Dict(("@type" :> Str(JOB_POSTING))
                 @@ ("title" :> Str(<<"Q", "A", " ", "I", "n", "t", "e", "r", "n">>))
                 @@ ("hiringOrganization" :> MkDict([name |-> Str(<<"A", "c", "m", "e">>)]))
                 @@ ("jobLocation" :> MkDict([address |->
                        MkDict([addressLocality |-> Str(<<"A", "u", "s", "t", "i", "n">>),
                                addressRegion |-> Str(<<"T", "X">>)])]))
                 @@ ("baseSalary" :> MkDict([value |->
                        MkDict([minValue |-> Num(90000), maxValue |-> Num(120000),
                                unitText |-> Str(<<"Y", "E", "A", "R">>)])]))
                 @@ ("datePosted" :> Str(<<"2", "0", "2", "4", "-", "0", "1", "-", "0", "2">>))
                 @@ ("jobLocationType" :> Str(<<"T", "E", "L", "E", "C", "O", "M", "M", "U", "T", "E">>)))
        SparseJob == Dict("@type" :> Str(JOB_POSTING))
        BlankJob ==
            Dict(("@type" :> Str(JOB_POSTING))
                 @@ ("title" :> Str(<<" ">>))
                 @@ ("hiringOrganization" :> MkDict([name |-> Str(<<>>)]))
                 @@ ("jobLocation" :> List(<<MkDict([address |->
                        MkDict([addressLocality |-> Str(<<" ">>)])])>>))
                 @@ ("datePosted" :> Str(<<>>)))
        PageScripts ==
            { <<>>,
              <<NOT_JSON, JsonText(ORGANIZATION)>>,
              <<NOT_JSON, JsonText(List(<<ORGANIZATION, GoodJob>>))>>,
              <<JsonText(SparseJob)>>,
              <<JsonText(BlankJob)>> }
        PageMetas ==
            { NoNodes,
              OG_TITLE :> Str(<<" ", " ">>),
              OG_TITLE :> Str(<<"A", "c", "m", "e", " ", "h", "i", "r", "i", "n", "g", " ",
                    "Q", "A", " ", "|", " ", "J", "o", "b", "s">>) }
        TitleNodes ==
            { NoNodes,
              ("h1" :> Str(<<>>)) @@ ("title" :> Str(<<"Q", "A", " ", "a", "t", " ", "A", "c", "m", "e">>)),
              "h1" :> Str(<<"S", "e", "n", "i", "o", "r", " ", "Q", "A", " ", "(", "m", ")">>) }
        CompanyNodes ==
            { NoNodes,
              "[data-company]" :> Str(<<>>),
              ("[data-company]" :> Str(<<>>)) @@ (".company" :> Str(<<"A", "c", "m", "e">>)) }
        LocationNodes == { NoNodes, ".location" :> Str(<<"N", "e", "w", " ", "Y", "o", "r", "k">>) }
        PayNodes ==
            { NoNodes,
              "span.tvm__text--low-emphasis strong" :> Str(<<"H", "y", "b", "r", "i", "d">>),
              ".salary" :> Str(<<"$", "5", "0", ",", "0", "0", "0", " ", "-", " ", "6", "0",
                    ",", "0", "0", "0">>),
              ("[data-salary]" :> Str(<<>>)) @@ (".compensation" :> Str(<<"5", "0", "0",
                    " ", "-", " ", "6", "0", ",", "0", "0", "0">>)) }
        PageTexts == { <<>>, <<"J", "o", "i", "n", " ", "u", "s", " ", "i", "n", " ", "R",
              "i", "o", ",", " ", "T", "X", " ", "r", "e", "m", "o", "t", "e">>, <<"W", "o",
              "r", "k", " ", "o", "n", " ", "s", "i", "t", "e">>, <<"A", "p", "p", "l", "y",
              " ", "n", "o", "w">> }
    IN  { [scripts |-> sc, meta |-> me, nodes |-> tn @@ cn @@ ln @@ pn, text |-> tx] :
              sc \in PageScripts, me \in PageMetas, tn \in TitleNodes,
              cn \in CompanyNodes, ln \in LocationNodes, pn \in PayNodes,
              tx \in PageTexts }

Pages ==
    LET URL_JOBS == Str(<<"h", "t", "t", "p", "s", ":", "/", "/", "j", "o", "b", "s", ".",
              "e", "x", "a", "m", "p", "l", "e", "/", "1">>)
        URL_LINKEDIN == Str(<<"h", "t", "t", "p", "s", ":", "/", "/", "w", "w", "w", ".",
              "l", "i", "n", "k", "e", "d", "i", "n", ".", "c", "o", "m", "/", "j", "o",
              "b", "s", "/", "2">>)
    IN  { [url |-> URL_JOBS, netloc |-> <<"j", "o", "b", "s", ".", "e", "x", "a", "m",
              "p", "l", "e">>, ok |-> TRUE, soup |-> so] :
              so \in Soups }
        \cup { [url |-> URL_LINKEDIN, netloc |-> <<"w", "w", "w", ".", "L", "i", "n",
              "k", "e", "d", "I", "n", ".", "c", "o", "m">>, ok |-> TRUE, soup |-> so] :
                   so \in Soups }
        \cup { [url |-> URL_JOBS, netloc |-> <<"j", "o", "b", "s", ".", "e", "x", "a",
              "m", "p", "l", "e">>, ok |-> FALSE,
                soup |-> [scripts |-> <<>>, meta |-> NoNodes, nodes |-> NoNodes,
                          text |-> <<>>]] }

Init ==
    /\ fn = "start"
    /\ arg \in Pages
    /\ ret = None
    /\ file = NoFile

ScrapeJob ==
    /\ fn = "start"
    /\ fn' = "scrape_job"
    /\ ret' = scrape_job(arg)
    /\ UNCHANGED <<arg, file>>

ScraperScrapeJob ==
    /\ fn = "start"
    /\ fn' = "scraper.scrape_job"
    /\ ret' = scraper_scrape_job(arg)
    /\ UNCHANGED <<arg, file>>

Next == ScrapeJob \/ ScraperScrapeJob

Spec == Init /\ [][Next]_vars

RecordFields == {"title", "company", "location", "pay", "posted_date", "work_mode"}

\* C1: in the record the orchestrator returns, each of title, company,
\* location, pay, posted_date and work_mode is absent or a non-empty string
\* without leading or trailing whitespace, and url is the input URL.
C1_FieldsAbsentOrTrimmed ==
    (fn \in {"scrape_job", "scraper.scrape_job"} /\ ret # Raise) =>
        /\ ret.url = arg.url
        /\ \A f \in RecordFields :
              \/ ret[f] = None
              \/ /\ ret[f].t = "str"
                 /\ ret[f].v # <<>>
                 /\ Strip(ret[f].v) = ret[f].v

\* No JSON-LD JobPosting, and no heuristic selector selects a node with text.
NothingSelected(soup) ==
    /\ PostingPlaces(soup.scripts) = {}
    /\ \A sel \in DOMAIN soup.meta : Strip(soup.meta[sel].v) = <<>>
    /\ \A sel \in DOMAIN soup.nodes : soup.nodes[sel].v = <<>>

\* C6 as stated: a document without job-posting metadata in which no
\* heuristic selector matches a non-empty element yields a record whose
\* title, company, location, pay, posted_date and work_mode are all absent,
\* whatever its visible text.
C6_AllFieldsAbsent ==
    (fn \in {"scrape_job", "scraper.scrape_job"} /\ arg.ok
         /\ NothingSelected(arg.soup)) =>
        \A f \in RecordFields : ret[f] = None

\* C6, amended: for such a document title, company, pay and posted_date are
\* absent, and location and work_mode are what the free-text scans of the
\* visible text give (absent when the text has no gazetteer "City, XX"
\* match and none of the keywords).
C6_AbsentButForTextScans ==
    (fn \in {"scrape_job", "scraper.scrape_job"} /\ arg.ok
         /\ NothingSelected(arg.soup)) =>
        /\ ret # Raise
        /\ ret.url = arg.url
        /\ \A f \in {"title", "company", "pay", "posted_date"} : ret[f] = None
        /\ ret.location = find_location_in_text(arg.soup.text)
        /\ ret.work_mode = find_work_mode_in_text(arg.soup.text)
        /\ (/\ PatternMatches(arg.soup.text, 1) = <<>>
            /\ ~Contains(Lower(arg.soup.text), W_REMOTE)
            /\ ~Contains(Lower(arg.soup.text), W_HYBRID))
               => ret.location = None
        /\ (\A w \in {W_REMOTE, W_HYBRID, W_ON_SITE_HYPHEN, W_ONSITE,
                      W_ON_SITE_SPACE, W_IN_PERSON} :
                ~Contains(Lower(arg.soup.text), w))
               => ret.work_mode = None

\* A page with an empty heading and an undecodable script block, but with a
\* city and the word "remote" in its text, has been scraped.
C6_Witness ==
    /\ fn = "scrape_job"
    /\ arg.ok
    /\ NothingSelected(arg.soup)
    /\ DOMAIN arg.soup.nodes # {}
    /\ arg.soup.scripts # <<>>
    /\ ret.title = None
    /\ ret.location = Str(<<"R", "i", "o", ",", " ", "T", "X">>)
    /\ ret.work_mode = Str(REMOTE)

(***************************************************************************)
(* Structured records of every shape: a JobPosting in which one value, at  *)
(* the top level or nested, is null, a bool, a number, a string, an array  *)
(* or an object, on a page without selected nodes.                         *)
(***************************************************************************)
ShapePages ==
    LET Shapes ==
            { None, Bool(TRUE), Bool(FALSE), Num(0), Num(5), Str(<<>>),
              Str(<<"Q", "A">>), List(<<>>), List(<<Str(<<"Q", "A">>)>>),
              EmptyDict, MkDict([name |-> Str(<<"Q", "A">>)]) }
        JobWith(key, x) == Dict(("@type" :> Str(JOB_POSTING)) @@ (key :> x))
        Address(l, r, c) ==
            MkDict([address |->
                MkDict([addressLocality |-> l, addressRegion |-> r,
                        addressCountry |-> c])])
        Salary(lo, hi, u) ==
            MkDict([value |->
                MkDict([minValue |-> lo, maxValue |-> hi, unitText |-> u])])
        TX == Str(<<"T", "X">>)
        YEAR == Str(<<"Y", "E", "A", "R">>)
        Jobs ==
            { JobWith(key, x) :
                  key \in {"title", "hiringOrganization", "jobLocation",
                           "baseSalary", "datePosted", "jobLocationType"},
                  x \in Shapes }
            \cup { JobWith("hiringOrganization", MkDict([name |-> x])) :
                       x \in Shapes }
            \cup { JobWith("jobLocation", List(<<x>>)) : x \in Shapes }
            \cup { JobWith("jobLocation", MkDict([address |-> x])) : x \in Shapes }
            \cup { JobWith("jobLocation", Address(x, TX, Missing)) : x \in Shapes }
            \cup { JobWith("jobLocation", Address(Missing, x, Missing)) :
                       x \in Shapes }
            \cup { JobWith("jobLocation", Address(Missing, TX, x)) : x \in Shapes }
            \cup { JobWith("baseSalary", MkDict([value |-> x])) : x \in Shapes }
            \cup { JobWith("baseSalary", Salary(x, Missing, Missing)) :
                       x \in Shapes }
            \cup { JobWith("baseSalary", Salary(Num(90000), x, YEAR)) :
                       x \in Shapes }
            \cup { JobWith("baseSalary", Salary(Num(90000), Num(120000), x)) :
                       x \in Shapes }
            \cup { JobWith("baseSalary", Salary(Num(45), Missing, x)) :
                       x \in Shapes }
    IN  { [url |-> Str(<<"u">>), netloc |-> <<"j", "o", "b", "s">>, ok |-> TRUE,
           soup |-> [scripts |-> <<JsonText(job)>>, meta |-> NoNodes,
                     nodes |-> NoNodes, text |-> tx]] :
              job \in Jobs,
              tx \in { <<>>, <<"R", "i", "o", ",", " ", "T", "X", " ",
                                "r", "e", "m", "o", "t", "e">> } }

InitShapes ==
    /\ fn = "start"
    /\ arg \in ShapePages
    /\ ret = None
    /\ file = NoFile

SpecShapes == InitShapes /\ [][Next]_vars

\* The value x when its type is one of tags, null otherwise.
Expect(x, tags) == IF x.t \in tags THEN x ELSE None

\* The dict d with the value of key, when d has it, replaced by x.
SetKey(d, key, x) ==
    IF key \in DOMAIN d.v
    THEN Dict([k \in DOMAIN d.v |-> IF k = key THEN x ELSE d.v[k]])
    ELSE d

\* A place with every value of an unexpected shape replaced by null: the
\* place and its address are objects, the three address parts strings.
ExpectedPlace(place) ==
    IF place.t # "dict" THEN None
    ELSE LET a == Get(place, "address")
             parts == IF a.t # "dict" THEN None
                      ELSE SetKey(SetKey(SetKey(a,
                               "addressLocality",
                               Expect(Get(a, "addressLocality"), {"str"})),
                               "addressRegion",
                               Expect(Get(a, "addressRegion"), {"str"})),
                               "addressCountry",
                               Expect(Get(a, "addressCountry"), {"str"}))
         IN SetKey(place, "address", parts)

\* A base salary with every value of an unexpected shape replaced by null:
\* the salary is an object, its value a number, a string or an object whose
\* bounds are numbers or strings and whose unit is a string.
ExpectedSalary(base) ==
    IF base.t # "dict" THEN None
    ELSE LET v == Get(base, "value")
             range == SetKey(SetKey(SetKey(v,
                          "minValue", Expect(Get(v, "minValue"), {"num", "str"})),
                          "maxValue", Expect(Get(v, "maxValue"), {"num", "str"})),
                          "unitText", Expect(Get(v, "unitText"), {"str"}))
         IN SetKey(base, "value",
                   IF v.t = "dict" THEN range ELSE Expect(v, {"num", "str"}))

\* A JobPosting with every value of an unexpected shape replaced by null.
ExpectedJob(job) ==
    LET org == Get(job, "hiringOrganization")
        loc == Get(job, "jobLocation")
    IN SetKey(SetKey(SetKey(SetKey(SetKey(SetKey(job,
           "title", Expect(Get(job, "title"), {"str"})),
           "hiringOrganization",
           IF org.t # "dict" THEN None
           ELSE SetKey(org, "name", Expect(Get(org, "name"), {"str"}))),
           "jobLocation",
           IF loc.t = "list"
           THEN List([i \in 1..Len(loc.v) |-> ExpectedPlace(loc.v[i])])
           ELSE ExpectedPlace(loc)),
           "baseSalary", ExpectedSalary(Get(job, "baseSalary"))),
           "datePosted", Expect(Get(job, "datePosted"), {"str"})),
           "jobLocationType", Expect(Get(job, "jobLocationType"), {"str"}))

\* C11: whatever the types of the values of a decoded JobPosting, the
\* structured branch of the orchestrator does not raise, and it returns the
\* record it returns when every value of an unexpected shape is null: a
\* shape mismatch is reported as absence.
C11_ShapeMismatchIsAbsence ==
    (fn \in {"scrape_job", "scraper.scrape_job"}
         /\ Truthy(parse_jsonld_jobposting(arg.soup))) =>
        LET job == parse_jsonld_jobposting(arg.soup)
            page == [arg EXCEPT !.soup.scripts = <<JsonText(ExpectedJob(job))>>]
        IN /\ ret # Raise
           /\ ret = IF fn = "scrape_job" THEN scrape_job(page)
                    ELSE scraper_scrape_job(page)

(***************************************************************************)
(* Pages for the work mode: a JobPosting with a jobLocationType of some    *)
(* kind or no JobPosting, a work-mode hint node or none, and a visible     *)
(* text that is the hint's text followed by the rest of the page.          *)
(***************************************************************************)
WorkModePages ==
    LET HINT == "span.tvm__text--low-emphasis strong"
        HINT_HIDDEN == "span[aria-hidden='true'] span.tvm__text--low-emphasis strong"
        Types ==
            { Missing, Num(1),
              Str(<<"T", "E", "L", "E", "C", "O", "M", "M", "U", "T", "E">>),
              Str(<<"H", "y", "b", "r", "i", "d", "/", "R", "e", "m", "o", "t", "e">>),
              Str(<<"H", "y", "b", "r", "i", "d">>),
              Str(<<"O", "n", "s", "i", "t", "e">>),
              Str(<<"I", "n", " ", "p", "e", "r", "s", "o", "n">>) }
        Scripts ==
            { <<>> }
            \cup { <<JsonText(MkDict(("@type" :> Str(JOB_POSTING))
                                      @@ ("jobLocationType" :> type)))>> :
                       type \in Types }
        Hints ==
            { NoNodes,
              HINT :> Str(<<>>),
              HINT :> Str(<<"H", "y", "b", "r", "i", "d">>),
              HINT :> Str(<<"F", "u", "l", "l", "-", "t", "i", "m", "e">>),
              (HINT_HIDDEN :> Str(<<"I", "n", " ", "p", "e", "r", "s", "o", "n">>))
                  @@ (HINT :> Str(<<"I", "n", " ", "p", "e", "r", "s", "o", "n">>)) }
        Rest ==
            { <<>>,
              <<"H", "y", "b", "r", "i", "d", " ", "o", "r", " ",
                "r", "e", "m", "o", "t", "e">>,
              <<"O", "n", "-", "s", "i", "t", "e", " ", "o", "r", " ",
                "h", "y", "b", "r", "i", "d">>,
              <<"W", "o", "r", "k", " ", "o", "n", " ", "s", "i", "t", "e">>,
              <<"A", "p", "p", "l", "y", " ", "n", "o", "w">> }
        HintText(nodes) == IF HINT \in DOMAIN nodes THEN nodes[HINT].v ELSE <<>>
    IN  { [url |-> Str(<<"u">>), netloc |-> <<"j", "o", "b", "s">>, ok |-> TRUE,
           soup |-> [scripts |-> sc, meta |-> NoNodes, nodes |-> hint,
                     text |-> Strip(HintText(hint) \o <<" ">> \o rest)]] :
              sc \in Scripts, hint \in Hints, rest \in Rest }

InitWorkMode ==
    /\ fn = "start"
    /\ arg \in WorkModePages
    /\ ret = None
    /\ file = NoFile

SpecWorkMode == InitWorkMode /\ [][Next]_vars

\* The work-mode values of the record.
WorkModes == {Str(REMOTE), Str(HYBRID), Str(ON_SITE)}

\* Whether the record posting, if any, has a string jobLocationType.
TypeText(posting) ==
    IF Truthy(posting) /\ Get(posting, "jobLocationType").t = "str"
    THEN Get(posting, "jobLocationType").v
    ELSE <<>>

\* C12: the returned work_mode is "Remote", "Hybrid", "On-site" or absent;
\* it is the classification of the first source that classifies to a value,
\* the sources being the structured jobLocationType and then the visible
\* text in the structured branch, the selected hint and then the visible
\* text in the heuristic branch; and in the text that decides, "remote"
\* wins over "hybrid", which wins over the on-site keywords.
C12_WorkModeSourceOrder ==
    (fn \in {"scrape_job", "scraper.scrape_job"} /\ ret # Raise) =>
        LET posting == parse_jsonld_jobposting(arg.soup)
            hint == Or(first_text(arg.soup, WORK_MODE_SELECTORS), Str(<<>>)).v
            first == IF Truthy(posting) THEN normalize_work_mode(posting)
                     ELSE find_work_mode_in_text(hint)
            second == find_work_mode_in_text(arg.soup.text)
            deciding == Lower(IF first = None THEN arg.soup.text
                              ELSE IF Truthy(posting) THEN TypeText(posting)
                              ELSE hint)
            remote == \/ Contains(deciding, W_REMOTE)
                      \/ /\ first # None
                         /\ Truthy(posting)
                         /\ Contains(deciding, W_TELECOMMUTE)
            hybrid == Contains(deciding, W_HYBRID)
        IN /\ ret.work_mode \in WorkModes \cup {None}
           /\ ret.work_mode = IF first # None THEN first ELSE second
           /\ remote => ret.work_mode = Str(REMOTE)
           /\ (~remote /\ hybrid) => ret.work_mode = Str(HYBRID)
           /\ (~remote /\ ~hybrid) => ret.work_mode \in {Str(ON_SITE), None}

\* In the heuristic branch the hint said "Hybrid" and the visible text also
\* says "remote": the hint decided.  (The structured counterpart: the
\* jobLocationType said "Onsite" on a page whose text says "remote".)
C12_Witness ==
    /\ fn = "scrape_job"
    /\ ~Truthy(parse_jsonld_jobposting(arg.soup))
    /\ first_text(arg.soup, WORK_MODE_SELECTORS) = Str(HYBRID)
    /\ Contains(Lower(arg.soup.text), W_REMOTE)
    /\ ret.work_mode = Str(HYBRID)

(***************************************************************************)
(* Local table writer: write_csv, _parse_int (src/scraper.py).  The file   *)
(* is held as the table csv.DictReader reads from it: the header's field   *)
(* names and, per record, the texts of its cells (a record may have fewer  *)
(* cells than the header has names), and whether the text of the file     *)
(* ends with a line terminator (eol), as every file csv.writer wrote does  *)
(* and as a file edited by hand need not.  Field names are strings, cells  *)
(* are sequences of characters.                                            *)
(***************************************************************************)
CSV_FIELDNAMES ==
    <<"ID", "Company", "Title", "Location", "Work Mode", "Pay", "Date Applied",
      "URL">>

\* int(str(value).strip()), None for None and for the ValueError.
parse_int(value) ==
    IF value = None THEN None
    ELSE LET s == Strip(PyStr(value))
         IN IF AllDigits(s) THEN Num(ToInt(s))
            ELSE IF Len(s) >= 2 /\ s[1] = "+" /\ AllDigits(Tail(s))
            THEN Num(ToInt(Tail(s)))
            ELSE IF Len(s) >= 2 /\ s[1] = "-" /\ AllDigits(Tail(s))
            THEN Num(0 - ToInt(Tail(s)))
            ELSE None

\* existing.get(key, default) for a record read by csv.DictReader: the cell
\* under the field name, None (restval) when the record is too short, the
\* default when the header has no such name.
CellOf(fieldnames, cells, key, default) ==
    LET at == {i \in 1..Len(fieldnames) : fieldnames[i] = key}
    IN IF at = {} THEN default
       ELSE IF SetMax(at) <= Len(cells) THEN Str(cells[SetMax(at)])
       ELSE None

\* What csv.DictWriter writes for a value: "" for None, str(value) otherwise.
WriteCell(x) == IF x = None THEN <<>> ELSE PyStr(x)

\* writer.writerow(d): one cell per field name, "" for a key d lacks.
WriteRow(fieldnames, d) ==
    [j \in 1..Len(fieldnames) |->
        IF fieldnames[j] \in DOMAIN d THEN WriteCell(d[fieldnames[j]]) ELSE <<>>]

\* max_id of the loop over the rows of a file with an ID column.
max_id(f) ==
    SetMax({0} \cup
           { parse_int(CellOf(f.fieldnames, f.rows[k], "ID", None)).v :
                 k \in { i \in 1..Len(f.rows) :
                           LET parsed == parse_int(CellOf(f.fieldnames, f.rows[i],
                                                          "ID", None))
                           IN parsed # None /\ parsed.v > 0 } })

\* open(path, "a") and writer.writerow: the text of the record and a line
\* terminator are added at the end of the file.  After a line terminator
\* that is a new record; after an unterminated last record the text
\* continues that record, its first cell lengthening the record's last
\* cell.  (A header is never left unterminated here.)
AppendText(f, cells) ==
    IF f.eol \/ f.rows = <<>> THEN Append(f.rows, cells)
    ELSE LET n == Len(f.rows)
             last == f.rows[n]
         IN [f.rows EXCEPT ![n] =
                SubSeq(last, 1, Len(last) - 1)
                \o <<last[Len(last)] \o Head(cells)>> \o Tail(cells)]

\* The file after write_csv(path, row).
write_csv(f, row) ==
    IF ~f.exists
    THEN [exists |-> TRUE, fieldnames |-> CSV_FIELDNAMES,
          rows |-> <<WriteRow(CSV_FIELDNAMES, row @@ ("ID" :> Num(1)))>>,
          eol |-> TRUE]
    ELSE LET has_id == \E i \in 1..Len(f.fieldnames) : f.fieldnames[i] = "ID"
             top == IF has_id THEN max_id(f) ELSE Len(f.rows)
             row_with_id == row @@ ("ID" :> Num(top + 1))
             needs_rewrite == ~has_id \/ f.fieldnames # CSV_FIELDNAMES
             normalized_rows ==
                 [k \in 1..Len(f.rows) |->
                     [j \in 1..Len(CSV_FIELDNAMES) |->
                         IF ~has_id /\ CSV_FIELDNAMES[j] = "ID" THEN IntToStr(k)
                         ELSE WriteCell(CellOf(f.fieldnames, f.rows[k],
                                               CSV_FIELDNAMES[j], Str(<<>>)))]]
         IN IF needs_rewrite
            THEN [exists |-> TRUE, fieldnames |-> CSV_FIELDNAMES,
                  rows |-> Append(normalized_rows,
                                  WriteRow(CSV_FIELDNAMES, row_with_id)),
                  eol |-> TRUE]
            ELSE [f EXCEPT !.rows = AppendText(f, WriteRow(f.fieldnames, row_with_id)),
                           !.eol = TRUE]

MaxRows == 3

\* The rows main() hands to write_csv: the seven columns, Company and Title
\* as scraped.
CsvRows ==
    { ("Company" :> company) @@ ("Title" :> title) @@ ("Location" :> None)
      @@ ("Work Mode" :> Str(REMOTE)) @@ ("Pay" :> Str(<<"9", "0", "k">>))
      @@ ("Date Applied" :> Str(<<"2", "0", "2", "6">>)) @@ ("URL" :> Str(<<"u">>)) :
          company \in {None, Str(<<"A", "c", "m", "e">>)},
          title \in {None, Str(<<" ", "7", " ">>)} }

\* The files found at the output path: none, an empty one, tables with the
\* current header and identifiers of every kind, and tables of other
\* schemas, with and without an ID column.
CsvFiles ==
    LET IdCells ==
            { <<"1">>, <<"2">>, <<" ", "7", " ">>, <<"+", "4">>, <<"-", "3">>,
              <<"0">>, <<"x">>, <<>> }
        Current(id) ==
            <<id, <<"A", "c", "m", "e">>, <<"Q", "A">>, <<>>, <<>>, <<>>,
              <<"2", "0", "2", "5">>, <<"u">>>>
        Table(fieldnames, rows) ==
            [exists |-> TRUE, fieldnames |-> fieldnames, rows |-> rows,
             eol |-> TRUE]
        Unterminated(f) == [f EXCEPT !.eol = FALSE]
        Short == <<<<"B", "e", "t", "a">>>>
        OldRows == { <<<<"A", "c", "m", "e">>, <<"Q", "A">>, <<"u">>>>, Short }
        MovedRows ==
            { <<<<"A", "c", "m", "e">>, <<"5">>, <<"n">>>>,
              <<<<"C">>, <<"2">>, <<"m">>>>, Short }
    IN  { NoFile, Table(<<>>, <<>>), Table(CSV_FIELDNAMES, <<>>) }
        \cup { Table(CSV_FIELDNAMES, <<Current(a)>>) : a \in IdCells }
        \cup { Unterminated(Table(CSV_FIELDNAMES, <<Current(a)>>)) :
                   a \in IdCells }
        \cup { Unterminated(Table(<<"Company", "Title", "URL">>, <<row>>)) :
                   row \in OldRows }
        \cup { Table(CSV_FIELDNAMES, <<Current(a), Current(b)>>) :
                   a \in IdCells, b \in IdCells }
        \cup { Table(<<"Company", "Title", "URL">>, rows) :
                   rows \in SeqsUpTo(OldRows, 2) }
        \cup { Table(<<"id", "Company">>, <<<<<<"9">>, <<"C">>>>>>) }
        \cup { Table(<<"Company", "ID", "Notes">>, rows) :
                   rows \in SeqsUpTo(MovedRows, 2) }

InitCsv ==
    /\ fn = "start"
    /\ arg = None
    /\ ret = None
    /\ file \in CsvFiles

\* One call write_csv(path, row); it returns None.
WriteCsv ==
    /\ Len(file.rows) < MaxRows
    /\ \E row \in CsvRows :
          /\ fn' = "write_csv"
          /\ arg' = row
          /\ ret' = None
          /\ file' = write_csv(file, row)

NextCsv == WriteCsv

SpecCsv == InitCsv /\ [][NextCsv]_vars

\* A table as calls from a missing file leave it: the current header and
\* full records whose identifiers are 1, 2, ... in order.
Sequential(f) ==
    /\ f.exists
    /\ f.fieldnames = CSV_FIELDNAMES
    /\ \A k \in 1..Len(f.rows) :
          /\ Len(f.rows[k]) = Len(CSV_FIELDNAMES)
          /\ f.rows[k][1] = IntToStr(k)

\* The record of a row under an identifier: the identifier, then the seven
\* columns of the row, an absent one empty.
RowText(id, row) ==
    <<IntToStr(id)>>
    \o [j \in 1..(Len(CSV_FIELDNAMES) - 1) |->
           IF row[CSV_FIELDNAMES[j + 1]] = None THEN <<>>
           ELSE row[CSV_FIELDNAMES[j + 1]].v]

HasIdColumn(f) == \E i \in 1..Len(f.fieldnames) : f.fieldnames[i] = "ID"

\* The positive integers among the identifiers of a table.
PositiveIds(f) ==
    { n \in 1..99 :
          \E k \in 1..Len(f.rows) :
              parse_int(CellOf(f.fieldnames, f.rows[k], "ID", None)) = Num(n) }

\* What C13 says of one write_csv call, from the file before it (file) to
\* the file after it (file') for the row handed over (arg').
SequentialIdStep ==
    fn' = "write_csv" =>
      LET n == Len(file.rows)
          new == file'.rows[n + 1]
      IN /\ file'.exists
         /\ file'.fieldnames = CSV_FIELDNAMES
         /\ Len(file'.rows) = n + 1
         /\ Tail(new) = Tail(RowText(0, arg'))
         /\ ~file.exists => file'.rows = <<RowText(1, arg')>>
         /\ Sequential(file) =>
               /\ file'.rows = Append(file.rows, RowText(n + 1, arg'))
               /\ Sequential(file')
               /\ \A i, j \in 1..(n + 1) :
                     i # j => file'.rows[i][1] # file'.rows[j][1]
         /\ (file.exists /\ HasIdColumn(file)) =>
               new[1] = IntToStr(SetMax({0} \cup PositiveIds(file)) + 1)
         /\ (file.exists /\ ~HasIdColumn(file)) =>
               /\ new[1] = IntToStr(n + 1)
               /\ \A k \in 1..n :
                     /\ file'.rows[k][1] = IntToStr(k)
                     /\ \A j \in 2..Len(CSV_FIELDNAMES) :
                           Str(file'.rows[k][j]) =
                               Or(CellOf(file.fieldnames, file.rows[k],
                                         CSV_FIELDNAMES[j], Str(<<>>)),
                                  Str(<<>>))

\* C13: each write_csv call adds exactly one record, the last, holding the
\* call's row.  From a missing file the record gets ID 1, and on a table
\* whose records carry the IDs 1..n the call leaves those records as they
\* are and appends the row with ID n + 1 (so the IDs stay pairwise distinct
\* and in call order).  On a file with an ID column the new ID is one more
\* than the largest positive integer ID present (1 when there is none); on
\* a file without an ID column the existing records are numbered 1..n in
\* order, keeping their cells, and the new record gets n + 1.
C13_SequentialIds == [][SequentialIdStep]_vars

\* The same, for the calls that find no file or a file whose text ends
\* with a line terminator (every file write_csv itself has written).
SequentialIdsAfterLineEnd == [][file.eol => SequentialIdStep]_vars


====
